---- MODULE Spec2Model ----
(***************************************************************************)
(* Model of fastmcp_slack.py: the in-memory session store, the credential  *)
(* resolver and the four Slack tools built on them.                        *)
(*                                                                         *)
(* Python strings are TLA+ strings (prefix tests are done with SubSeq and  *)
(* Len).  An Optional value is a sequence of length at most one: None is   *)
(* <<>> and a present value v is <<v>>; the same encoding is used for a    *)
(* dict key that may be absent (d.get(k)).  A tool call that reaches the   *)
(* Slack WebClient is a sequence of steps, one per WebClient call: the     *)
(* step takes the response of the pending call and runs the code up to     *)
(* the next WebClient call or to the return.  pc names the pending call.   *)
(***************************************************************************)
EXTENDS Integers, Sequences, FiniteSets, TLC

VARIABLES
    SESSION_TOKENS,  \* dict session_id -> bot_token (module global)
    environ,         \* the process environment read by os.getenv
    uuidCount,       \* number of uuid.uuid4() values drawn so far
    issued,          \* observer: handle -> credential, for handles returned
                     \* by create_session and not yet reported removed
    returned,        \* observer: the handles create_session returned, in order
    prev,            \* observer: what the tool call delivered last did (see
                     \* Deliver); the next tool call compares itself with it
    pc,              \* "idle", "done" (the tool ended, its result is not yet
                     \* delivered), or the WebClient method whose response is awaited
    call,            \* the tool call in progress: its arguments
    frame,           \* local variables of the tool call in progress
    gw,              \* WebClient calls issued by that tool call, in order
    result,          \* what the tool call returned or raised
    threads          \* the calls running concurrently on the store, one per
                     \* thread (used by SpecConcurrent only; empty otherwise)

vars == <<SESSION_TOKENS, environ, uuidCount, issued, returned, prev, pc, call,
          frame, gw, result, threads>>

---------------------------------------------------------------------------
(* Bounds of the model *)

MaxSessions == 2   \* create_session succeeds at most this many times
MaxChans == 2      \* longest channel list a conversations_list response holds
MaxMsgs == 1       \* longest message list a conversations_history response holds
MaxThreads == 2    \* calls running concurrently on the session store

---------------------------------------------------------------------------
(* Python values *)

None == <<>>
Some(v) == <<v>>

\* bool(x) for an Optional[str]: None and "" are falsy
Truthy(o) == o # None /\ o[1] # ""

\* s.startswith(p)
StartsWith(s, p) == Len(s) >= Len(p) /\ SubSeq(s, 1, Len(p)) = p

\* s[n:]
DropPrefix(s, n) == SubSeq(s, n + 1, Len(s))

\* d.get(k) for a dict modelled as a function
DictGet(d, k) == IF k \in DOMAIN d THEN Some(d[k]) ELSE None

\* d without key k (del d[k])
DictDel(d, k) == [x \in DOMAIN d \ {k} |-> d[x]]

\* d with d[k] = v
DictPut(d, k, v) == [x \in DOMAIN d \cup {k} |-> IF x = k THEN v ELSE d[x]]

\* a.get(k, default) / (a.get(k) or default) for an Optional field
GetOr(o, default) == IF o = None THEN default ELSE o[1]
OrElse(o, default) == IF Truthy(o) THEN o[1] ELSE default

\* outcome of a helper: a value, or a raised ValueError with its message
Value(v) == [raised |-> FALSE, value |-> v, message |-> ""]
ValueError(m) == [raised |-> TRUE, value |-> "", message |-> m]

\* what a tool call ends with: a JSON document (json.dumps), a plain text
\* string, or an exception propagating out of the tool function
NoResult == [kind |-> "none", text |-> "", payload |-> <<>>]
Json(p) == [kind |-> "json", text |-> "", payload |-> p]
Text(t) == [kind |-> "text", text |-> t, payload |-> <<>>]
Raised(m) == [kind |-> "raise", text |-> m, payload |-> <<>>]

---------------------------------------------------------------------------
(* Input domains *)

EnvNames == {"A"}
EnvValues == {"", "xoxb-1", "xoxb-2", "xoxp-1"}

\* credentials offered to create_session
Credentials == {"", "xoxb-1", "xoxp-1", "env:A", "env:B", "env:"}

\* uuid.uuid4().hex of the n-th draw: distinct draws give distinct values
UuidHex(n) == "s" \o ToString(n)

Handles == {UuidHex(n) : n \in 1..(MaxSessions + 1)}

\* session_id arguments: absent, empty, or a handle (issued or not)
SessionArgs == {None, Some("")} \cup {Some(h) : h \in Handles}

\* (bot_token, session_id) arguments of the session-requiring tools: every
\* bot_token without a session handle, no bot_token with every handle, and a
\* bot_token together with the first handle
ToolArgs ==
    ({None, Some(""), Some("xoxb-1")} \X {None, Some("")})
        \cup ({None} \X {Some(h) : h \in Handles})
        \cup {<<Some("xoxb-1"), Some(UuidHex(1))>>}

---------------------------------------------------------------------------
(* Credential resolver and session store: lines 16-49 *)

\* os.getenv(name)
getenv(name) == DictGet(environ, name)

SessionRequiredText ==
    "error: session_required - call create_session(bot_token) and pass session_id"
MissingSessionMessage == "missing_session_id: call create_session(bot_token) first"
InvalidSessionMessage == "invalid_session_id: create a new session via create_session"
BadShapeMessage == "Expected a Slack Bot token starting with xoxb-"
EnvMissingMessage(name) == "env_var_missing:" \o name

\* mutant: the shape of the secret is not checked
ShapeCheckSkipped(token) == Value(token)

\* the shape check of _client on the final secret
ShapeCheck(token) ==
    IF ~StartsWith(token, "xoxb-")
    THEN ValueError(BadShapeMessage)
    ELSE Value(token)

\* mutant: only an unset variable is reported missing, an empty one is not
ClientUnsetOnly(token) ==
    IF StartsWith(token, "env:")
    THEN LET env_name == DropPrefix(token, 4)
             resolved == getenv(env_name)
         IN  IF resolved = None
             THEN ValueError(EnvMissingMessage(env_name))
             ELSE ShapeCheck(resolved[1])
    ELSE ShapeCheck(token)

\* mutant: a secret read from the environment is used as it is
ClientEnvUnchecked(token) ==
    IF StartsWith(token, "env:")
    THEN LET env_name == DropPrefix(token, 4)
             resolved == getenv(env_name)
         IN  IF ~Truthy(resolved)
             THEN ValueError(EnvMissingMessage(env_name))
             ELSE Value(resolved[1])
    ELSE ShapeCheck(token)

\* _client(token): the secret the WebClient is built with, or a ValueError
_client(token) ==
    IF StartsWith(token, "env:")
    THEN LET env_name == DropPrefix(token, 4)
             resolved == getenv(env_name)
         IN  IF ~Truthy(resolved)
             THEN ValueError(EnvMissingMessage(env_name))
             ELSE ShapeCheck(resolved[1])
    ELSE ShapeCheck(token)

\* mutant: the store is looked up before the handle is tested for emptiness
ResolveLooksUpFirst(session_id) ==
    LET token == IF session_id = None
                 THEN None
                 ELSE DictGet(SESSION_TOKENS, session_id[1])
    IN  IF ~Truthy(token)
        THEN ValueError(InvalidSessionMessage)
        ELSE Value(token[1])

\* _resolve_session_token(session_id)
_resolve_session_token(session_id) ==
    IF ~Truthy(session_id)
    THEN ValueError(MissingSessionMessage)
    ELSE LET token == DictGet(SESSION_TOKENS, session_id[1])
         IN  IF ~Truthy(token)
             THEN ValueError(InvalidSessionMessage)
             ELSE Value(token[1])

NoFrame ==
    [client |-> "", text |-> "", items |-> <<>>, acc |-> <<>>,
     latest_dm |-> None, latest_ts |-> 0, resp |-> None]

\* the arguments of a tool call, and what an observer notes of it:
\* store_reads, the reads of SESSION_TOKENS made to resolve the session;
\* repeat, it is a destroy_session of the handle the previous call removed;
\* rekeyed, it built its client with another secret than the previous call,
\* which was given the same session; candidates, the number of conversations
\* the listing of auto_reply_latest returned (-1 before it); seen_max and
\* seen_best, the greatest timestamp fetched by its probes so far and the
\* conversations it was fetched for; listed, the ids of the conversations of
\* that listing, in order (the four are noted until the post is answered,
\* and reset then)
Call(op, bot_token, session_id, channel, text) ==
    [op |-> op, bot_token |-> bot_token, session_id |-> session_id,
     channel |-> channel, text |-> text, store_reads |-> 0,
     repeat |-> FALSE, rekeyed |-> FALSE,
     candidates |-> -1, seen_max |-> None, seen_best |-> {}, listed |-> <<>>]

NoCall == Call("", None, None, "", None)

\* observer: the session the previous tool call was given, the secret its
\* client was built with (if it built one), and whether it reported a removal
NoPrev == [session_id |-> None, secret |-> None, removed |-> FALSE]

Summary ==
    IF call.op = "destroy_session" /\ result.payload[1].ok
    THEN [session_id |-> call.session_id, secret |-> None, removed |-> TRUE]
    ELSE IF gw # <<>>
    THEN [session_id |-> call.session_id, secret |-> Some(gw[1].token),
          removed |-> FALSE]
    ELSE NoPrev

\* mutant: the secret resolved at creation is stored
StoredSecret(bot_token, secret) == secret

\* mutant: the mapping is stored with an empty credential
StoredEmpty(bot_token, secret) == ""

\* the entry create_session adds to the store
StoredCredential(bot_token, secret) == bot_token

\* mutant: the handle is numbered after the sessions stored at the moment
RecycledSessionId == UuidHex(Cardinality(DOMAIN SESSION_TOKENS) + 1)

\* the handle create_session generates
NewSessionId == UuidHex(uuidCount + 1)

\* create_session(bot_token)
create_session(bot_token) ==
    /\ pc = "idle"
    /\ LET c == _client(bot_token)
           session_id == NewSessionId
       IN  IF c.raised
           THEN /\ result' = Raised(c.message)
                /\ UNCHANGED <<SESSION_TOKENS, uuidCount, issued, returned>>
           ELSE /\ uuidCount < MaxSessions
                /\ uuidCount' = uuidCount + 1
                /\ SESSION_TOKENS' =
                       DictPut(SESSION_TOKENS, session_id,
                               StoredCredential(bot_token, c.value))
                /\ issued' = DictPut(issued, session_id, bot_token)
                /\ returned' = Append(returned, session_id)
                /\ result' = Json(<<[session_id |-> session_id]>>)
    /\ call' = Call("create_session", Some(bot_token), None, "", None)
    /\ pc' = "done"
    /\ prev' = NoPrev
    /\ UNCHANGED <<environ, frame, gw, threads>>

\* mutant: destroy_session empties the store
StoreCleared(session_id) == <<>>

\* mutant: destroy_session reports the removal and removes nothing
StoreKept(session_id) == SESSION_TOKENS

\* mutant: destroy_session blanks the credential and keeps the key
StoreBlanked(session_id) == DictPut(SESSION_TOKENS, session_id, "")

\* the store after destroy_session removed session_id
StoreAfterDestroy(session_id) == DictDel(SESSION_TOKENS, session_id)

\* destroy_session(session_id)
destroy_session(session_id) ==
    /\ pc = "idle"
    /\ IF session_id \in DOMAIN SESSION_TOKENS
       THEN /\ SESSION_TOKENS' = StoreAfterDestroy(session_id)
            /\ result' = Json(<<[ok |-> TRUE]>>)
            /\ issued' = DictDel(issued, session_id)
       ELSE /\ result' = Json(<<[ok |-> FALSE, error |-> "invalid_session_id"]>>)
            /\ UNCHANGED <<SESSION_TOKENS, issued>>
    /\ call' = [Call("destroy_session", None, Some(session_id), "", None)
                   EXCEPT !.repeat = prev.removed /\ prev.session_id = Some(session_id)]
    /\ pc' = "done"
    /\ prev' = NoPrev
    /\ UNCHANGED <<environ, uuidCount, returned, frame, gw, threads>>

\* the result of the tool call goes to the caller; the server awaits the next call
Deliver ==
    /\ pc = "done"
    /\ pc' = "idle"
    /\ prev' = Summary
    /\ call' = NoCall
    /\ gw' = <<>>
    /\ result' = NoResult
    /\ UNCHANGED <<SESSION_TOKENS, environ, uuidCount, issued, returned, frame, threads>>

\* the environment changes between two tool calls
SetEnv(name, value) ==
    /\ pc = "idle"
    /\ DictGet(environ, name) # Some(value)
    /\ environ' = DictPut(environ, name, value)
    /\ UNCHANGED <<SESSION_TOKENS, uuidCount, issued, returned, prev, pc, call, frame,
                   gw, result, threads>>

UnsetEnv(name) ==
    /\ pc = "idle"
    /\ name \in DOMAIN environ
    /\ environ' = DictDel(environ, name)
    /\ UNCHANGED <<SESSION_TOKENS, uuidCount, issued, returned, prev, pc, call, frame,
                   gw, result, threads>>

---------------------------------------------------------------------------
(* The Slack WebClient (slack_sdk), as the tools use it *)

\* error codes of a SlackApiError (e.response['error'])
ErrCodes == {"ratelimited", "channel_not_found"}

\* a WebClient response: the data, or a SlackApiError carrying a code
Ok(body) == [ok |-> TRUE, error |-> "", body |-> body]
SlackApiError(code) == [ok |-> FALSE, error |-> code, body |-> <<>>]
Failures == {SlackApiError(c) : c \in ErrCodes}

\* the failure of a users_info or bots_info call (the tools catch it without
\* reading its code)
LookupFailures == {SlackApiError("user_not_found")}

\* sequences over S of length at most n, without repetition
DistinctSeqs(S, n) ==
    {s \in UNION {[1..k -> S] : k \in 0..n} :
        \A i, j \in DOMAIN s : i # j => s[i] # s[j]}

\* sequences over S of length at most n
SeqsUpTo(S, n) == UNION {[1..k -> S] : k \in 0..n}

Channel(id, name, is_im, user) ==
    [id |-> id, name |-> name, is_im |-> is_im, user |-> user]

\* conversations of types im, mpim, private_channel
ChannelPool ==
    {Channel("D1", None, TRUE, Some("U1")),
     Channel("D2", None, TRUE, None),
     Channel("G1", Some("general"), FALSE, None)}

\* conversations of type im
ImPool ==
    {Channel("D1", None, TRUE, Some("U1")),
     Channel("D2", None, TRUE, Some("U2")),
     Channel("D3", None, TRUE, Some("U3"))}

\* users_info: user.real_name and user.profile.email may be absent or empty
UserInfos ==
    {[real_name |-> None, email |-> None],
     [real_name |-> Some(""), email |-> Some("a@x.com")],
     [real_name |-> Some("Alice"), email |-> Some("a@x.com")]}

\* bots_info: bot.name may be absent
BotInfos == {[name |-> None], [name |-> Some("helper")]}

Message(user, bot_id, text, ts) ==
    [user |-> user, bot_id |-> bot_id, text |-> text, ts |-> ts]

\* messages of a conversations_history response
MessagePool ==
    {Message(Some("U1"), None, Some("hi"), Some("10")),
     Message(None, Some("B1"), Some("ping"), Some("5")),
     Message(Some("W1"), None, None, Some("5")),
     Message(None, None, Some("joined"), None)}

\* the newest message of a conversation, as auto_reply_latest probes it
ProbeTs == {None, Some("0"), Some("5"), Some("10")}
ProbePool == {Message(Some("U1"), None, Some("hi"), ts) : ts \in ProbeTs}

\* chat_postMessage: resp["ok"], resp["ts"], resp["message"] (may be absent)
PostResponses ==
    {[ok |-> Some(TRUE), ts |-> Some("20"),
      message |-> Some([user |-> None, bot_id |-> Some("B1")])],
     [ok |-> Some(TRUE), ts |-> Some("20"),
      message |-> Some([user |-> Some("U1"), bot_id |-> Some("B1")])],
     [ok |-> None, ts |-> None, message |-> None]}

ChannelArgs == {"D1"}
ReplyTexts == {"on it"}
TextArgs == {None, Some("on it")}

\* (text, (bot_token, session_id)) arguments of auto_reply_latest: no text
\* with every pair of ToolArgs, a text with the first handle and with a
\* bot_token alone
AutoReplyArgs ==
    ({None} \X ToolArgs)
        \cup ((TextArgs \ {None})
                 \X {<<None, Some(UuidHex(1))>>, <<Some("xoxb-1"), None>>})

\* the identity lookups of the tools
LookupApis == {"users_info", "bots_info"}

\* one WebClient call of the log: method, token of the client, target, text,
\* and, once it was answered, whether it succeeded, the error code of the
\* SlackApiError if it did not, and what a lookup returned
Issue(api, token, arg, text) ==
    [api |-> api, token |-> token, arg |-> arg, text |-> text,
     status |-> "pending", error |-> "", reply |-> None]

\* the log once the pending call was answered
Answered(log, r) ==
    [log EXCEPT ![Len(log)].status = IF r.ok THEN "ok" ELSE "error",
                ![Len(log)].error = r.error,
                ![Len(log)].reply = IF r.ok /\ log[Len(log)].api \in LookupApis
                                    THEN Some(r.body)
                                    ELSE None]

\* mutant: the failure is reported under one code for all SlackApiErrors
GatewayErrorGeneric(r) == "error: slack_api_error"

\* except SlackApiError as e: return f"error: {e.response['error']}"
GatewayErrorText(r) == "error: " \o r.error

---------------------------------------------------------------------------
(* Entry of the four tools: lines 54-57, 90-93, 132-135, 170-173 *)

\* mutant: the guard asks for a session handle too
GuardWithSession(bot_token, session_id) == Truthy(bot_token) /\ Truthy(session_id)

\* the guard on a raw credential given without a session handle
SessionRequired(bot_token, session_id) == Truthy(bot_token) /\ ~Truthy(session_id)

\* number of reads of SESSION_TOKENS by _resolve_session_token(session_id)
StoreReads(session_id) == IF Truthy(session_id) THEN 1 ELSE 0

\* the guard, then session and credential resolution: either the tool ends
\* here (done, with its result) or it holds a client built with `client`
Enter(bot_token, session_id) ==
    IF SessionRequired(bot_token, session_id)
    THEN [done |-> TRUE, result |-> Text(SessionRequiredText), reads |-> 0,
          client |-> ""]
    ELSE LET token == _resolve_session_token(session_id)
             reads == StoreReads(session_id)
         IN  IF token.raised
             THEN [done |-> TRUE, result |-> Raised(token.message),
                   reads |-> reads, client |-> ""]
             ELSE LET c == _client(token.value)
                  IN  IF c.raised
                      THEN [done |-> TRUE, result |-> Raised(c.message),
                            reads |-> reads, client |-> ""]
                      ELSE [done |-> FALSE, result |-> NoResult,
                            reads |-> reads, client |-> c.value]

\* a tool is called: it ends at once, or issues its first WebClient call
Begin(c, text, api, arg) ==
    /\ pc = "idle"
    /\ LET e == Enter(c.bot_token, c.session_id)
       IN  /\ call' = [c EXCEPT !.store_reads = e.reads,
                                !.rekeyed = /\ ~e.done
                                            /\ prev.secret # None
                                            /\ prev.session_id = c.session_id
                                            /\ prev.secret # Some(e.client)]
           /\ result' = e.result
           /\ IF e.done
              THEN /\ pc' = "done"
                   /\ gw' = <<>>
                   /\ frame' = NoFrame
              ELSE /\ pc' = api
                   /\ gw' = <<Issue(api, e.client, arg, "")>>
                   /\ frame' = [NoFrame EXCEPT !.client = e.client, !.text = text]
    /\ prev' = NoPrev
    /\ UNCHANGED <<SESSION_TOKENS, environ, uuidCount, issued, returned, threads>>

\* the pending call was answered by r and the tool returns res
Return(r, res) ==
    /\ result' = res
    /\ pc' = "done"
    /\ frame' = NoFrame
    /\ gw' = Answered(gw, r)

\* the pending call was answered by r and the tool issues its next WebClient call
Await(r, api, arg, text, f) ==
    /\ pc' = api
    /\ gw' = Append(Answered(gw, r), Issue(api, frame.client, arg, text))
    /\ frame' = f
    /\ UNCHANGED result

Global == <<SESSION_TOKENS, environ, uuidCount, issued, returned, prev, threads>>
Shared == <<SESSION_TOKENS, environ, uuidCount, issued, returned, prev, call, threads>>

---------------------------------------------------------------------------
(* list_dms: lines 51-86 *)

DmEntry(ch, channel_name, profile) ==
    [channel_id |-> ch.id, channel_name |-> channel_name, profile |-> profile]

\* if ch.get("is_im"): user_id = ch.get("user"); if user_id:
NeedsUserLookup(ch) == ch.is_im /\ Truthy(ch.user)

\* the for loop over channels, up to the next channel that needs users_info
RECURSIVE ScanChannels(_, _)
ScanChannels(items, acc) ==
    IF items = <<>>
    THEN [items |-> items, acc |-> acc]
    ELSE LET ch == Head(items)
         IN  IF NeedsUserLookup(ch)
             THEN [items |-> items, acc |-> acc]
             ELSE ScanChannels(Tail(items),
                               Append(acc, DmEntry(ch, OrElse(ch.name, ch.id), "")))

\* the loop goes on after response r: to the next users_info call, or to the return
ListDmsContinue(r, items, acc) ==
    LET s == ScanChannels(items, acc)
    IN  IF s.items = <<>>
        THEN Return(r, Json(s.acc))
        ELSE Await(r, "users_info", Head(s.items).user[1], "",
                   [frame EXCEPT !.items = s.items, !.acc = s.acc])

\* the entry of a direct message whose users_info call was answered by r
DmLookupEntry(r, ch) ==
    LET user_id == ch.user[1]
    IN  IF r.ok
        THEN DmEntry(ch, "Direct Message with " \o GetOr(r.body.real_name, user_id),
                     GetOr(r.body.email, ""))
        ELSE DmEntry(ch, "Direct Message with " \o user_id, "")

\* try: users_info ... except SlackApiError (lines 72-77), then the loop goes on
ListDmsAfterLookup(r) ==
    ListDmsContinue(r, Tail(frame.items),
                    Append(frame.acc, DmLookupEntry(r, Head(frame.items))))

list_dms(bot_token, session_id) ==
    Begin(Call("list_dms", bot_token, session_id, "", None), "",
          "conversations_list", "im,mpim,private_channel")

list_dms_conversations_list ==
    /\ pc = "conversations_list"
    /\ call.op = "list_dms"
    /\ \E r \in Failures \cup {Ok(chs) : chs \in DistinctSeqs(ChannelPool, MaxChans)} :
          IF r.ok
          THEN ListDmsContinue(r, r.body, <<>>)
          ELSE Return(r, Text(GatewayErrorText(r)))
    /\ UNCHANGED Shared

list_dms_users_info ==
    /\ pc = "users_info"
    /\ call.op = "list_dms"
    /\ \E r \in LookupFailures \cup {Ok(u) : u \in UserInfos} : ListDmsAfterLookup(r)
    /\ UNCHANGED Shared

---------------------------------------------------------------------------
(* list_recent_messages: lines 88-128 *)

\* msg.get("user") or msg.get("bot_id") or "Unknown"
SenderId(msg) == OrElse(msg.user, OrElse(msg.bot_id, "Unknown"))

\* which lookup the sender id gets: lines 105, 113 (and 142, 149, 198, 205)
SenderClass(sender_id) ==
    IF StartsWith(sender_id, "U") THEN "users_info"
    ELSE IF StartsWith(sender_id, "B") THEN "bots_info"
    ELSE "none"

\* sender_name and profile once the lookup was answered by r (or was not made)
Identity(sender_id, class, r) ==
    IF class = "users_info" /\ r.ok
    THEN [sender_name |-> GetOr(r.body.real_name, sender_id),
          profile |-> GetOr(r.body.email, "")]
    ELSE IF class = "bots_info" /\ r.ok
    THEN [sender_name |-> GetOr(r.body.name, sender_id), profile |-> ""]
    ELSE [sender_name |-> sender_id, profile |-> ""]

MessageEntry(msg, id) ==
    [text |-> GetOr(msg.text, ""), sender_name |-> id.sender_name,
     profile |-> id.profile, ts |-> msg.ts]

\* the for loop over messages, up to the next message whose sender is looked up
RECURSIVE ScanMessages(_, _)
ScanMessages(items, acc) ==
    IF items = <<>>
    THEN [items |-> items, acc |-> acc]
    ELSE LET msg == Head(items)
             sender_id == SenderId(msg)
         IN  IF SenderClass(sender_id) # "none"
             THEN [items |-> items, acc |-> acc]
             ELSE ScanMessages(Tail(items),
                      Append(acc, MessageEntry(msg, Identity(sender_id, "none", Ok(<<>>)))))

ListMessagesContinue(r, items, acc) ==
    LET s == ScanMessages(items, acc)
    IN  IF s.items = <<>>
        THEN Return(r, Json(s.acc))
        ELSE LET sender_id == SenderId(Head(s.items))
             IN  Await(r, SenderClass(sender_id), sender_id, "",
                       [frame EXCEPT !.items = s.items, !.acc = s.acc])

\* mutant: no inner try, the lookup's SlackApiError reaches the outer except
ListMessagesLookupUncaught(r) ==
    IF r.ok
    THEN LET msg == Head(frame.items)
         IN  ListMessagesContinue(r, Tail(frame.items),
                 Append(frame.acc, MessageEntry(msg, Identity(SenderId(msg), pc, r))))
    ELSE Return(r, Text(GatewayErrorText(r)))

\* try: users_info/bots_info ... except SlackApiError: pass, then the loop goes on
ListMessagesAfterLookup(r) ==
    LET msg == Head(frame.items)
    IN  ListMessagesContinue(r, Tail(frame.items),
            Append(frame.acc, MessageEntry(msg, Identity(SenderId(msg), pc, r))))

list_recent_messages(channel, bot_token, session_id) ==
    Begin(Call("list_recent_messages", bot_token, session_id, channel, None), "",
          "conversations_history", channel)

list_recent_messages_conversations_history ==
    /\ pc = "conversations_history"
    /\ call.op = "list_recent_messages"
    /\ \E r \in Failures \cup {Ok(ms) : ms \in SeqsUpTo(MessagePool, MaxMsgs)} :
          IF r.ok
          THEN ListMessagesContinue(r, r.body, <<>>)
          ELSE Return(r, Text(GatewayErrorText(r)))
    /\ UNCHANGED Shared

list_recent_messages_users_info ==
    /\ pc = "users_info"
    /\ call.op = "list_recent_messages"
    /\ \E r \in LookupFailures \cup {Ok(u) : u \in UserInfos} : ListMessagesAfterLookup(r)
    /\ UNCHANGED Shared

list_recent_messages_bots_info ==
    /\ pc = "bots_info"
    /\ call.op = "list_recent_messages"
    /\ \E r \in LookupFailures \cup {Ok(b) : b \in BotInfos} : ListMessagesAfterLookup(r)
    /\ UNCHANGED Shared

---------------------------------------------------------------------------
(* send_reply: lines 130-164, and the identical tail of auto_reply_latest:  *)
(* lines 193-217                                                           *)

\* resp.get("message", {}).get("user") or resp.get("message", {}).get("bot_id")
\* or "Unknown"
PostSenderId(resp) ==
    LET message == GetOr(resp.message, [user |-> None, bot_id |-> None])
    IN  SenderId(message)

\* the JSON document the tool returns after posting
ReplyPayload(op, channel, resp, id) ==
    IF op = "send_reply"
    THEN [ok |-> GetOr(resp.ok, FALSE), channel |-> channel, ts |-> resp.ts,
          sender_name |-> id.sender_name, profile |-> id.profile]
    ELSE [channel |-> channel, ts |-> resp.ts,
          sender_name |-> id.sender_name, profile |-> id.profile]

\* the channel the tool posted to
PostedChannel == IF call.op = "send_reply" THEN call.channel ELSE frame.latest_dm[1].id

\* chat_postMessage succeeded with resp: look the sender up, or return
AfterPost(r) ==
    LET resp == r.body
        sender_id == PostSenderId(resp)
        class == SenderClass(sender_id)
    IN  IF class = "none"
        THEN Return(r, Json(<<ReplyPayload(call.op, PostedChannel, resp,
                                           Identity(sender_id, "none", r))>>))
        ELSE Await(r, class, sender_id, "", [frame EXCEPT !.resp = Some(resp)])

\* try: users_info/bots_info ... except SlackApiError: pass, then the return
AfterPostLookup(r) ==
    LET resp == frame.resp[1]
    IN  Return(r, Json(<<ReplyPayload(call.op, PostedChannel, resp,
                                      Identity(PostSenderId(resp), pc, r))>>))

send_reply(channel, text, bot_token, session_id) ==
    Begin(Call("send_reply", bot_token, session_id, channel, Some(text)), text,
          "chat_postMessage", channel)

send_reply_chat_postMessage ==
    /\ pc = "chat_postMessage"
    /\ call.op = "send_reply"
    /\ \E r \in Failures \cup {Ok(p) : p \in PostResponses} :
          IF r.ok
          THEN AfterPost(r)
          ELSE Return(r, Text(GatewayErrorText(r)))
    /\ UNCHANGED Shared

post_users_info ==
    /\ pc = "users_info"
    /\ call.op \in {"send_reply", "auto_reply_latest"}
    /\ \E r \in LookupFailures \cup {Ok(u) : u \in UserInfos} : AfterPostLookup(r)
    /\ UNCHANGED Shared

post_bots_info ==
    /\ pc = "bots_info"
    /\ call.op \in {"send_reply", "auto_reply_latest"}
    /\ \E r \in LookupFailures \cup {Ok(b) : b \in BotInfos} : AfterPostLookup(r)
    /\ UNCHANGED Shared

---------------------------------------------------------------------------
(* auto_reply_latest: lines 166-219 *)

DefaultReply == "Thanks! I'll get back to you soon."

DigitValue(c) ==
    CASE c = "0" -> 0 [] c = "1" -> 1 [] c = "2" -> 2 [] c = "3" -> 3
      [] c = "4" -> 4 [] c = "5" -> 5 [] c = "6" -> 6 [] c = "7" -> 7
      [] c = "8" -> 8 [] c = "9" -> 9

\* float(s) for a string of decimal digits
RECURSIVE ParseDigits(_, _)
ParseDigits(s, acc) ==
    IF Len(s) = 0
    THEN acc
    ELSE ParseDigits(SubSeq(s, 2, Len(s)), 10 * acc + DigitValue(SubSeq(s, 1, 1)))

\* float(hist[0].get("ts", 0))
ProbedTs(msg) == IF msg.ts = None THEN 0 ELSE ParseDigits(msg.ts[1], 0)

\* if ts > latest_ts: the probed conversation becomes the latest
Newer(ts, latest_ts) == ts > latest_ts

\* latest_dm and latest_ts after the probe of dm was answered with hist
Probed(f, dm, hist) ==
    IF hist # <<>> /\ Newer(ProbedTs(hist[1]), f.latest_ts)
    THEN [f EXCEPT !.latest_ts = ProbedTs(hist[1]), !.latest_dm = Some(dm)]
    ELSE f

\* mutant: latest_dm starts as the conversation probed, not as None
AfterProbeNeverEmpty(r) ==
    LET f == Probed(frame, Head(frame.items), r.body)
        rest == Tail(frame.items)
        dm == GetOr(f.latest_dm, Head(frame.items))
    IN  IF rest # <<>>
        THEN Await(r, "conversations_history", Head(rest).id, "",
                   [f EXCEPT !.items = rest])
        ELSE Await(r, "chat_postMessage", dm.id, f.text,
                   [f EXCEPT !.items = rest, !.latest_dm = Some(dm)])

\* mutant: the loop stops at the first conversation that has a message
AfterProbePostsEarly(r) ==
    LET f == Probed(frame, Head(frame.items), r.body)
        rest == Tail(frame.items)
    IN  IF f.latest_dm # None
        THEN Await(r, "chat_postMessage", f.latest_dm[1].id, f.text,
                   [f EXCEPT !.items = rest])
        ELSE IF rest # <<>>
        THEN Await(r, "conversations_history", Head(rest).id, "",
                   [f EXCEPT !.items = rest])
        ELSE Return(r, Text("error: no_recent_dm_found"))

\* the for loop over ims goes on after the probe of the first item was
\* answered (latest_ts is not read after the loop: it is dropped from the
\* frame when the loop ends)
AfterProbe(r) ==
    LET f == Probed(frame, Head(frame.items), r.body)
        rest == Tail(frame.items)
    IN  IF rest # <<>>
        THEN Await(r, "conversations_history", Head(rest).id, "",
                   [f EXCEPT !.items = rest])
        ELSE IF f.latest_dm = None
        THEN Return(r, Text("error: no_recent_dm_found"))
        ELSE Await(r, "chat_postMessage", f.latest_dm[1].id, f.text,
                   [f EXCEPT !.items = rest, !.latest_ts = 0])

\* conversations_list(types="im") succeeded with ims
AfterImList(r) ==
    LET ims == r.body
    IN  IF ims = <<>>
        THEN Return(r, Text("error: no_im_channels"))
        ELSE Await(r, "conversations_history", Head(ims).id, "",
                   [frame EXCEPT !.items = ims, !.latest_dm = None, !.latest_ts = 0])

auto_reply_latest(text, bot_token, session_id) ==
    Begin(Call("auto_reply_latest", bot_token, session_id, "", text),
          OrElse(text, DefaultReply), "conversations_list", "im")

\* observer: the greatest fetched timestamp and where it was fetched,
\* once the probe of dm was answered with hist
Observed(c, dm, hist) ==
    IF hist = <<>>
    THEN c
    ELSE LET ts == ProbedTs(hist[1])
         IN  IF c.seen_max = None \/ ts > GetOr(c.seen_max, 0)
             THEN [c EXCEPT !.seen_max = Some(ts), !.seen_best = {dm.id}]
             ELSE IF ts = c.seen_max[1]
             THEN [c EXCEPT !.seen_best = @ \cup {dm.id}]
             ELSE c

auto_reply_latest_conversations_list ==
    /\ pc = "conversations_list"
    /\ call.op = "auto_reply_latest"
    /\ \E r \in Failures \cup {Ok(ims) : ims \in DistinctSeqs(ImPool, MaxChans)} :
          IF r.ok
          THEN /\ AfterImList(r)
               /\ call' = [call EXCEPT
                      !.candidates = Len(r.body),
                      !.listed = [i \in DOMAIN r.body |-> r.body[i].id]]
          ELSE /\ Return(r, Text(GatewayErrorText(r)))
               /\ UNCHANGED call
    /\ UNCHANGED Global

auto_reply_latest_conversations_history ==
    /\ pc = "conversations_history"
    /\ call.op = "auto_reply_latest"
    /\ \E r \in Failures \cup {Ok(h) : h \in SeqsUpTo(ProbePool, 1)} :
          IF r.ok
          THEN /\ AfterProbe(r)
               /\ call' = Observed(call, Head(frame.items), r.body)
          ELSE /\ Return(r, Text(GatewayErrorText(r)))
               /\ UNCHANGED call
    /\ UNCHANGED Global

auto_reply_latest_chat_postMessage ==
    /\ pc = "chat_postMessage"
    /\ call.op = "auto_reply_latest"
    /\ \E r \in Failures \cup {Ok(p) : p \in PostResponses} :
          IF r.ok
          THEN AfterPost(r)
          ELSE Return(r, Text(GatewayErrorText(r)))
    /\ call' = [call EXCEPT !.candidates = -1, !.seen_max = None, !.seen_best = {},
                             !.listed = <<>>]
    /\ UNCHANGED Global

---------------------------------------------------------------------------

Init ==
    /\ SESSION_TOKENS = <<>>
    /\ environ = <<>>
    /\ uuidCount = 0
    /\ issued = <<>>
    /\ returned = <<>>
    /\ prev = NoPrev
    /\ pc = "idle"
    /\ call = NoCall
    /\ frame = NoFrame
    /\ gw = <<>>
    /\ result = NoResult
    /\ threads = <<>>

Next ==
    \/ Deliver
    \/ \E t \in Credentials : create_session(t)
    \/ \E h \in Handles \cup {""} : destroy_session(h)
    \/ \E n \in EnvNames, v \in EnvValues : SetEnv(n, v)
    \/ \E n \in EnvNames : UnsetEnv(n)
    \/ \E a \in ToolArgs : list_dms(a[1], a[2])
    \/ list_dms_conversations_list
    \/ list_dms_users_info
    \/ \E c \in ChannelArgs, a \in ToolArgs : list_recent_messages(c, a[1], a[2])
    \/ list_recent_messages_conversations_history
    \/ list_recent_messages_users_info
    \/ list_recent_messages_bots_info
    \/ \E c \in ChannelArgs, x \in ReplyTexts, a \in ToolArgs :
          send_reply(c, x, a[1], a[2])
    \/ send_reply_chat_postMessage
    \/ post_users_info
    \/ post_bots_info
    \/ \E a \in AutoReplyArgs : auto_reply_latest(a[1], a[2][1], a[2][2])
    \/ auto_reply_latest_conversations_list
    \/ auto_reply_latest_conversations_history
    \/ auto_reply_latest_chat_postMessage

Spec == Init /\ [][Next]_vars

---------------------------------------------------------------------------
(* Concurrent calls on the session store.  Each thread runs one call at a  *)
(* time; a step is one access to SESSION_TOKENS (a dict operation is       *)
(* atomic in CPython, a sequence of them is not).  The module has no lock.  *)

Threads == 1..MaxThreads

\* a thread and the call it runs: pc is "idle", "store" (create_session is
\* about to execute line 41), "del" (destroy_session passed the test of
\* line 46) or "done"
Thread(op, bot_token, session_id, at, res) ==
    [op |-> op, bot_token |-> bot_token, session_id |-> session_id,
     pc |-> at, result |-> res]

IdleThread == Thread("", "", None, "idle", NoResult)

\* del d[k] on a dict that has no key k
KeyError(k) == Raised("KeyError: " \o k)

OtherState == <<environ, issued, returned, prev, pc, call, frame, gw, result>>

\* create_session, lines 39-40: the credential is validated, the handle drawn
create_session_begin(t, bot_token) ==
    /\ threads[t].pc = "idle"
    /\ LET c == _client(bot_token)
       IN  IF c.raised
           THEN /\ threads' = [threads EXCEPT
                       ![t] = Thread("create_session", bot_token, None, "done",
                                     Raised(c.message))]
                /\ UNCHANGED uuidCount
           ELSE /\ uuidCount < MaxSessions
                /\ uuidCount' = uuidCount + 1
                /\ threads' = [threads EXCEPT
                       ![t] = Thread("create_session", bot_token,
                                     Some(NewSessionId), "store", NoResult)]
    /\ UNCHANGED <<SESSION_TOKENS, OtherState>>

\* create_session, lines 41-42: the mapping is stored, the handle returned
create_session_store(t) ==
    /\ threads[t].pc = "store"
    /\ LET session_id == threads[t].session_id[1]
       IN  /\ SESSION_TOKENS' = DictPut(SESSION_TOKENS, session_id,
                                        threads[t].bot_token)
           /\ threads' = [threads EXCEPT
                  ![t].pc = "done",
                  ![t].result = Json(<<[session_id |-> session_id]>>)]
    /\ UNCHANGED <<uuidCount, OtherState>>

\* destroy_session, line 46 (and line 49 when the handle is not stored)
destroy_session_test(t, session_id) ==
    /\ threads[t].pc = "idle"
    /\ threads' = [threads EXCEPT
           ![t] = IF session_id \in DOMAIN SESSION_TOKENS
                  THEN Thread("destroy_session", "", Some(session_id), "del",
                              NoResult)
                  ELSE Thread("destroy_session", "", Some(session_id), "done",
                              Json(<<[ok |-> FALSE,
                                      error |-> "invalid_session_id"]>>))]
    /\ UNCHANGED <<SESSION_TOKENS, uuidCount, OtherState>>

\* destroy_session, lines 47-48: del raises KeyError when the key is gone
destroy_session_del(t) ==
    /\ threads[t].pc = "del"
    /\ LET session_id == threads[t].session_id[1]
       IN  IF session_id \in DOMAIN SESSION_TOKENS
           THEN /\ SESSION_TOKENS' = DictDel(SESSION_TOKENS, session_id)
                /\ threads' = [threads EXCEPT
                       ![t].pc = "done",
                       ![t].result = Json(<<[ok |-> TRUE]>>)]
           ELSE /\ threads' = [threads EXCEPT
                       ![t].pc = "done",
                       ![t].result = KeyError(session_id)]
                /\ UNCHANGED SESSION_TOKENS
    /\ UNCHANGED <<uuidCount, OtherState>>

\* a session-requiring tool resolves its handle, lines 29-35: one read of
\* the store
resolve_session(t, session_id) ==
    /\ threads[t].pc = "idle"
    /\ threads' = [threads EXCEPT
           ![t] = Thread("_resolve_session_token", "", session_id, "done",
                         _resolve_session_token(session_id))]
    /\ UNCHANGED <<SESSION_TOKENS, uuidCount, OtherState>>

\* the call of thread t returns to its caller
ThreadReturn(t) ==
    /\ threads[t].pc = "done"
    /\ threads' = [threads EXCEPT ![t] = IdleThread]
    /\ UNCHANGED <<SESSION_TOKENS, uuidCount, OtherState>>

\* credentials and handles the concurrent callers use
ConcurrentCredentials == {"xoxb-1", "xoxb-2", "xoxp-1"}

InitConcurrent ==
    /\ SESSION_TOKENS = <<>>
    /\ environ = <<>>
    /\ uuidCount = 0
    /\ issued = <<>>
    /\ returned = <<>>
    /\ prev = NoPrev
    /\ pc = "idle"
    /\ call = NoCall
    /\ frame = NoFrame
    /\ gw = <<>>
    /\ result = NoResult
    /\ threads = [t \in Threads |-> IdleThread]

NextConcurrent ==
    \E t \in Threads :
        \/ \E c \in ConcurrentCredentials : create_session_begin(t, c)
        \/ create_session_store(t)
        \/ \E h \in Handles : destroy_session_test(t, h)
        \/ destroy_session_del(t)
        \/ \E a \in SessionArgs : resolve_session(t, a)
        \/ ThreadReturn(t)

SpecConcurrent == InitConcurrent /\ [][NextConcurrent]_vars

---------------------------------------------------------------------------
(* Properties *)

Done == pc = "done"

SessionTools == {"list_dms", "list_recent_messages", "send_reply", "auto_reply_latest"}

\* a tool call is made: the step from "idle" that sets the arguments
Called(op) == pc = "idle" /\ call'.op = op

\* handles create_session has returned so far
Created == {UuidHex(n) : n \in 1..uuidCount}

IsEnvRef(credential) == StartsWith(credential, "env:")

GwIndex(api) == {i \in DOMAIN gw : gw[i].api = api}
GwNoError == \A i \in DOMAIN gw : gw[i].status # "error"
NoPost == GwIndex("chat_postMessage") = {}

\* the WebClient calls that decide the tool's result, and the last of them
PrimaryApis == {"conversations_list", "conversations_history", "chat_postMessage"}
LastPrimary(op) ==
    CASE op = "list_dms" -> "conversations_list"
      [] op = "list_recent_messages" -> "conversations_history"
      [] OTHER -> "chat_postMessage"

\* C1: a handle that create_session returned for a direct credential c, and
\* that no destroy_session has removed, resolves to exactly c, whatever was
\* created or destroyed under other handles in between.
C1_ResolveReturnsCredential ==
    \A h \in DOMAIN issued :
        ~IsEnvRef(issued[h]) => _resolve_session_token(Some(h)) = Value(issued[h])

\* a live handle with a direct credential, after another handle was created
\* and destroyed
C1_Witness ==
    \E h \in DOMAIN issued :
        /\ issued[h] = "xoxb-1"
        /\ Created \ DOMAIN issued # {}
        /\ _resolve_session_token(Some(h)) = Value("xoxb-1")

\* C2: a WebClient call is issued only by a session-requiring tool whose
\* session handle was found in the store in that call and whose credential
\* resolved to a non-empty secret starting with xoxb-, the token of every
\* call; a tool call that ends with a session or credential resolution
\* failure has issued no WebClient call.
C2_NoGatewayCallBeforeResolution ==
    /\ gw # <<>> =>
          /\ call.op \in SessionTools
          /\ Truthy(call.session_id)
          /\ call.store_reads = 1
          /\ call.session_id[1] \in DOMAIN SESSION_TOKENS
          /\ \A i \in DOMAIN gw :
                /\ gw[i].token # ""
                /\ StartsWith(gw[i].token, "xoxb-")
                /\ _client(SESSION_TOKENS[call.session_id[1]]) = Value(gw[i].token)
    /\ (Done /\ result.kind = "raise") => gw = <<>>
    /\ pc \notin {"idle", "done"} => gw # <<>>

\* a tool called with a live session whose environment value has the wrong
\* shape ended with the failure and no WebClient call
C2_Witness ==
    /\ Done
    /\ call.op \in SessionTools
    /\ Truthy(call.session_id)
    /\ call.session_id[1] \in DOMAIN SESSION_TOKENS
    /\ result = Raised(BadShapeMessage)
    /\ gw = <<>>

\* C3: a session-requiring tool called with a non-empty bot_token and no
\* session handle ends at once with the session_required text, without a
\* WebClient call, without a read of the session store, the store unchanged.
C3_SessionRequired ==
    [][(/\ \E op \in SessionTools : Called(op)
        /\ Truthy(call'.bot_token)
        /\ ~Truthy(call'.session_id))
       => /\ pc' = "done"
          /\ result' = Text(SessionRequiredText)
          /\ gw' = <<>>
          /\ call'.store_reads = 0
          /\ SESSION_TOKENS' = SESSION_TOKENS]_vars

\* the guard answered a call made while the store holds a session
C3_Witness ==
    /\ Done
    /\ call.op \in SessionTools
    /\ call.bot_token = Some("xoxb-1")
    /\ ~Truthy(call.session_id)
    /\ result = Text(SessionRequiredText)
    /\ DOMAIN SESSION_TOKENS # {}

\* C4: a session created with 'env:NAME' keeps the raw string 'env:NAME' in
\* the store, and every tool call that uses it builds its client with the
\* value NAME has in the environment at that call; so a call made after the
\* value changed uses the new value.
C4_EnvResolvedAtEachCall ==
    \A h \in DOMAIN issued :
        IsEnvRef(issued[h]) =>
            /\ DictGet(SESSION_TOKENS, h) = Some(issued[h])
            /\ (call.session_id = Some(h) /\ call.op \in SessionTools) =>
                  \A i \in DOMAIN gw :
                      getenv(DropPrefix(issued[h], 4)) = Some(gw[i].token)
            /\ (call.session_id = Some(h) /\ call.rekeyed) => gw # <<>>

\* the second of two calls with the same handle, made after the value of A
\* changed, ran with the new value
C4_Witness ==
    /\ Done
    /\ call.rekeyed
    /\ result.kind = "json"
    /\ DictGet(SESSION_TOKENS, call.session_id[1]) = Some("env:A")
    /\ getenv("A") = Some("xoxb-2")
    /\ gw[1].token = "xoxb-2"

C6_MissingAndInvalidHandle ==
    /\ \A s \in SessionArgs :
          /\ ~Truthy(s) => _resolve_session_token(s) = ValueError(MissingSessionMessage)
          /\ (Truthy(s) /\ s[1] \notin DOMAIN issued) =>
                _resolve_session_token(s) = ValueError(InvalidSessionMessage)
    /\ (Done /\ call.op \in SessionTools) =>
          /\ (~Truthy(call.session_id) /\ ~Truthy(call.bot_token)) =>
                result = Raised(MissingSessionMessage)
          /\ (Truthy(call.session_id) /\ call.session_id[1] \notin DOMAIN issued) =>
                result = Raised(InvalidSessionMessage)

\* a tool was called with a handle that destroy_session had removed
C6_Witness ==
    /\ Done
    /\ call.op \in SessionTools
    /\ Truthy(call.session_id)
    /\ call.session_id[1] \in Created \ DOMAIN issued
    /\ result = Raised(InvalidSessionMessage)

\* C7: no tool call ends with an exception propagating to the caller: every
\* call ends by returning a JSON document or an "error: <code>" text.
C7_NoUnstructuredFailure ==
    Done => /\ result.kind \in {"json", "text"}
            /\ result.kind = "text" => StartsWith(result.text, "error: ")

\* C8: when the primary WebClient calls of a tool call, down to its last one
\* (the listing of list_dms, the history of list_recent_messages, the post of
\* send_reply and auto_reply_latest), all succeeded, the tool returns its JSON
\* success document whatever the users_info and bots_info calls answered.
C8_EnrichmentNeverFails ==
    (/\ Done
     /\ call.op \in SessionTools
     /\ GwIndex(LastPrimary(call.op)) # {}
     /\ \A i \in DOMAIN gw : gw[i].api \in PrimaryApis => gw[i].status = "ok")
    => result.kind = "json"

\* a tool returned its success document although a lookup failed
C8_Witness ==
    /\ Done
    /\ call.op \in SessionTools
    /\ result.kind = "json"
    /\ \E i \in DOMAIN gw :
          gw[i].api \in {"users_info", "bots_info"} /\ gw[i].status = "error"

\* C9: with every WebClient call succeeding, once auto_reply_latest has
\* probed all candidates and at least one of them has a message, it posts to
\* a conversation whose fetched timestamp is the greatest one fetched.
C9_PostsToLatest ==
    (/\ call.op = "auto_reply_latest"
     /\ pc \in {"done", "chat_postMessage"}
     /\ GwNoError
     /\ call.seen_max # None)
    => \E i \in GwIndex("chat_postMessage") : gw[i].arg \in call.seen_best

\* C10: auto_reply_latest ends with error: no_im_channels when the listing
\* is empty and with error: no_recent_dm_found when no candidate has a
\* message, without a chat_postMessage call; a post is only ever issued after
\* some candidate was seen to have a message.
C10_NotFound ==
    /\ (Done /\ call.op = "auto_reply_latest" /\ GwNoError) =>
          /\ call.candidates = 0 =>
                result = Text("error: no_im_channels") /\ NoPost
          /\ (call.candidates > 0 /\ call.seen_max = None) =>
                result = Text("error: no_recent_dm_found") /\ NoPost
    /\ (pc = "chat_postMessage" /\ call.op = "auto_reply_latest") =>
          call.candidates > 0 /\ call.seen_max # None

\* several candidates were probed, none had a message
C10_Witness ==
    /\ Done
    /\ call.op = "auto_reply_latest"
    /\ GwNoError
    /\ call.candidates > 1
    /\ Cardinality(GwIndex("conversations_history")) = call.candidates
    /\ call.seen_max = None
    /\ result = Text("error: no_recent_dm_found")
    /\ NoPost

\* the tools that resolve the identity of a sender
SenderTools == {"list_recent_messages", "send_reply", "auto_reply_latest"}

\* in the step that takes the answer of a sender lookup: the call answered,
\* and the entry of the result the step produced for that sender
LookupAnswered == gw'[Len(gw)]
LookupEntry ==
    IF call.op = "list_recent_messages"
    THEN (IF pc' = "done" THEN result'.payload ELSE frame'.acc)[Len(frame.acc) + 1]
    ELSE result'.payload[1]

\* C11: for a sender id looked up as a human user: when users_info succeeds
\* the name is the returned real name, or the raw id if the real name is
\* empty or absent, and the profile is the returned email or empty; when it
\* fails the name is the raw id and the profile is empty.
C11_UserIdentity ==
    [][(pc = "users_info" /\ call.op \in SenderTools) =>
          LET raw_id == LookupAnswered.arg
              entry == LookupEntry
          IN  IF LookupAnswered.status = "ok"
              THEN LET user == LookupAnswered.reply[1]
                   IN  /\ entry.sender_name = OrElse(user.real_name, raw_id)
                       /\ entry.profile = GetOr(user.email, "")
              ELSE /\ entry.sender_name = raw_id
                   /\ entry.profile = ""]_vars

\* C12: a message or post response that carries neither a user id nor a bot
\* id is never looked up as a user or as a bot, and its entry has the name
\* "Unknown" and an empty profile whatever the lookups answer.
C12_UnknownSender ==
    [][/\ \A i \in DOMAIN gw' :
              gw'[i].api \in LookupApis => gw'[i].arg # "Unknown"
       /\ (/\ pc \in LookupApis
           /\ call.op \in SenderTools
           /\ LookupAnswered.arg = "Unknown")
          => /\ LookupEntry.sender_name = "Unknown"
             /\ LookupEntry.profile = ""]_vars

\* the calls of the threads that have ended
Ended(op) == {t \in DOMAIN threads : threads[t].op = op /\ threads[t].pc = "done"}

\* C13: under every interleaving of concurrent create_session,
\* destroy_session and handle resolutions, each call ends as some atomic
\* execution would: destroy_session never raises and no two destroy_session
\* calls report the removal of the same handle; a resolution returns the
\* credential the handle was created with or fails with missing/invalid
\* handle; create_session calls return different handles.
C13_StoreCallsAtomic ==
    /\ \A t \in Ended("destroy_session") :
          /\ threads[t].result.kind = "json"
          /\ \A u \in Ended("destroy_session") \ {t} :
                threads[u].session_id = threads[t].session_id =>
                    ~(threads[t].result.payload[1].ok /\ threads[u].result.payload[1].ok)
    /\ \A t \in Ended("_resolve_session_token") :
          \/ threads[t].result \in {ValueError(MissingSessionMessage),
                                    ValueError(InvalidSessionMessage)}
          \/ /\ ~threads[t].result.raised
             /\ threads[t].result.value \in ConcurrentCredentials
    /\ \A t, u \in Ended("create_session") :
          (t # u /\ threads[t].result.kind = "json" /\ threads[u].result.kind = "json")
              => threads[t].result.payload # threads[u].result.payload

\* C14: when a conversations_list, conversations_history or chat_postMessage
\* call fails with code c, the tool returns "error: c" and that call is the
\* last WebClient call of the tool call: no retry, no lookup, no post.
C14_PrimaryFailureSurfaced ==
    \A i \in DOMAIN gw :
        (gw[i].api \in PrimaryApis /\ gw[i].status = "error") =>
            /\ i = Len(gw)
            /\ Done
            /\ result = Text("error: " \o gw[i].error)

\* the second probe of auto_reply_latest failed after the first found a message
C14_Witness ==
    /\ Done
    /\ call.op = "auto_reply_latest"
    /\ Len(gw) = 3
    /\ gw[3].api = "conversations_history"
    /\ gw[3].error = "ratelimited"
    /\ call.seen_max # None
    /\ result = Text("error: ratelimited")
    /\ NoPost

\* the session-requiring tool call in progress was given a stored handle
\* (and passed the guard on a raw credential)
UsesSession ==
    /\ call.op \in SessionTools
    /\ Truthy(call.session_id)
    /\ call.session_id[1] \in DOMAIN SESSION_TOKENS

\* the credential stored for the session of the call
SessionCredential == SESSION_TOKENS[call.session_id[1]]

\* C15: whenever a call can start, resolving 'env:NAME' fails with
\* env_var_missing:NAME if NAME is unset or empty; so every tool call that
\* uses a session storing 'env:NAME' ends with that failure, and with no
\* WebClient call, when NAME is unset or empty at the call.
C15_EnvVarMissing ==
    /\ pc = "idle" =>
          \A c \in Credentials :
              (IsEnvRef(c) /\ ~Truthy(getenv(DropPrefix(c, 4)))) =>
                  _client(c) = ValueError(EnvMissingMessage(DropPrefix(c, 4)))
    /\ (/\ Done
        /\ UsesSession
        /\ IsEnvRef(SessionCredential)
        /\ ~Truthy(getenv(DropPrefix(SessionCredential, 4))))
       => /\ result = Raised(EnvMissingMessage(DropPrefix(SessionCredential, 4)))
          /\ gw = <<>>

\* a tool used a session of 'env:A' while A was set to the empty string
C15_Witness ==
    /\ Done
    /\ UsesSession
    /\ SessionCredential = "env:A"
    /\ getenv("A") = Some("")
    /\ result = Raised("env_var_missing:A")

\* C16: whenever a call can start, credential resolution fails with the
\* bot-token shape failure if the final secret does not start with xoxb-: for
\* a direct credential, and
\* for 'env:NAME' when NAME is set to a non-empty value; create_session and
\* the tools end with that failure.
C16_InvalidShape ==
    /\ pc = "idle" =>
          \A c \in Credentials :
              LET secret == IF IsEnvRef(c) THEN getenv(DropPrefix(c, 4)) ELSE Some(c)
              IN  ((IsEnvRef(c) => Truthy(secret)) /\ ~StartsWith(secret[1], "xoxb-"))
                      => _client(c) = ValueError(BadShapeMessage)
    /\ (Done /\ call.op = "create_session"
             /\ ~IsEnvRef(call.bot_token[1])
             /\ ~StartsWith(call.bot_token[1], "xoxb-"))
       => result = Raised(BadShapeMessage)
    /\ (/\ Done
        /\ UsesSession
        /\ IsEnvRef(SessionCredential)
        /\ Truthy(getenv(DropPrefix(SessionCredential, 4)))
        /\ ~StartsWith(getenv(DropPrefix(SessionCredential, 4))[1], "xoxb-"))
       => /\ result = Raised(BadShapeMessage)
          /\ gw = <<>>

\* create_session was refused 'env:A' while A held a secret of another shape
C16_Witness ==
    /\ Done
    /\ call.op = "create_session"
    /\ call.bot_token = Some("env:A")
    /\ getenv("A") = Some("xoxp-1")
    /\ result = Raised(BadShapeMessage)
    /\ DOMAIN SESSION_TOKENS # {}

\* C17: every handle create_session returns differs from every handle it
\* returned before, whether or not that one was destroyed since.
C17_HandlesNeverReused ==
    /\ \A i, j \in DOMAIN returned : i # j => returned[i] # returned[j]
    /\ (Done /\ call.op = "create_session" /\ result.kind = "json") =>
          /\ returned # <<>>
          /\ result.payload[1].session_id = returned[Len(returned)]

\* create_session returned a second handle after the first one was destroyed
C17_Witness ==
    /\ Done
    /\ call.op = "create_session"
    /\ result.kind = "json"
    /\ Len(returned) = 2
    /\ returned[1] \notin DOMAIN SESSION_TOKENS
    /\ result.payload[1].session_id # returned[1]

\* C18: the WebClient calls of auto_reply_latest are, in this order: one
\* conversations_list, then one conversations_history per listed conversation
\* in the order of the listing, then one chat_postMessage, to the selected
\* conversation; the post follows every probe and no conversation is probed
\* twice.
C18_ProbeOrder ==
    call.op = "auto_reply_latest" =>
        LET listings == GwIndex("conversations_list")
            probes == GwIndex("conversations_history")
            posts == GwIndex("chat_postMessage")
        IN  /\ gw # <<>> => listings = {1}
            /\ Cardinality(posts) <= 1
            /\ \A h \in probes, p \in posts : h < p
            /\ \A i \in DOMAIN gw, p \in posts : gw[i].api \in LookupApis => p < i
            /\ \A h, k \in probes : h # k => gw[h].arg # gw[k].arg
            /\ call.candidates >= 0 =>
                  /\ \E k \in 0..call.candidates : probes = 2..(k + 1)
                  /\ \A h \in probes : gw[h].arg = call.listed[h - 1]
            /\ (pc = "chat_postMessage") =>
                  /\ probes = 2..(call.candidates + 1)
                  /\ posts = {call.candidates + 2}
                  /\ gw[Len(gw)].arg = frame.latest_dm[1].id
                  /\ gw[Len(gw)].arg \in {call.listed[i] : i \in DOMAIN call.listed}

\* two conversations were probed in the order listed and the post goes to
\* the one probed first
C18_Witness ==
    /\ pc = "chat_postMessage"
    /\ call.op = "auto_reply_latest"
    /\ call.listed = <<"D2", "D1">>
    /\ Len(gw) = 4
    /\ gw[2].arg = "D2"
    /\ gw[3].arg = "D1"
    /\ gw[4].arg = "D2"

\* the credentials that are non-empty and start with xoxb- or env:
WellShaped ==
    {c \in Credentials :
        c # "" /\ (StartsWith(c, "xoxb-") \/ StartsWith(c, "env:"))}

\* every stored credential is one of them
StoredValid == \A h \in DOMAIN SESSION_TOKENS : SESSION_TOKENS[h] \in WellShaped

\* C19 as stated: every stored credential is a non-empty string starting with
\* xoxb- or env:, and resolving a handle, any handle, fails with
\* invalid_session_id exactly when the handle is not a key of the store.
C19_InvalidIffNotKey ==
    /\ StoredValid
    /\ \A s \in SessionArgs :
          (_resolve_session_token(s) = ValueError(InvalidSessionMessage))
              <=> (s = None \/ s[1] \notin DOMAIN SESSION_TOKENS)

\* C19 amended: every stored credential is a non-empty string starting with
\* xoxb- or env:; resolving a non-empty handle fails with invalid_session_id
\* exactly when the handle is not a key of the store, and returns the stored
\* credential otherwise; an absent or empty handle, which is no key either,
\* fails with missing_session_id.
C19_InvalidIffNotKeyNonEmpty ==
    /\ StoredValid
    /\ \A s \in SessionArgs :
          IF Truthy(s)
          THEN /\ (_resolve_session_token(s) = ValueError(InvalidSessionMessage))
                      <=> (s[1] \notin DOMAIN SESSION_TOKENS)
               /\ s[1] \in DOMAIN SESSION_TOKENS =>
                      _resolve_session_token(s) = Value(SESSION_TOKENS[s[1]])
          ELSE _resolve_session_token(s) = ValueError(MissingSessionMessage)

\* the store holds 'env:A' while A is unset, and a tool was refused a handle
\* that had been destroyed
C19_Witness ==
    /\ Done
    /\ call.op \in SessionTools
    /\ result = Raised(InvalidSessionMessage)
    /\ call.session_id[1] \in Created \ DOMAIN SESSION_TOKENS
    /\ \E h \in DOMAIN SESSION_TOKENS :
          SESSION_TOKENS[h] = "env:A" /\ getenv("A") = None

\* C20: the store changes only in a create_session that succeeds, which adds
\* the one entry of the handle it returns, and in a destroy_session of a
\* stored handle, which removes that entry alone; a refused create_session,
\* a destroy_session of an absent handle and every step of the four tools
\* leave it unchanged; create_session issues no WebClient call.
C20_StoreFrame ==
    [][/\ SESSION_TOKENS' # SESSION_TOKENS =>
             \/ /\ Called("create_session")
                /\ result'.kind = "json"
                /\ LET h == result'.payload[1].session_id
                   IN  /\ h \notin DOMAIN SESSION_TOKENS
                       /\ SESSION_TOKENS' =
                              DictPut(SESSION_TOKENS, h, call'.bot_token[1])
             \/ /\ Called("destroy_session")
                /\ call'.session_id[1] \in DOMAIN SESSION_TOKENS
                /\ SESSION_TOKENS' = DictDel(SESSION_TOKENS, call'.session_id[1])
       /\ (Called("create_session") /\ result'.kind = "json")
             => SESSION_TOKENS' # SESSION_TOKENS
       /\ (Called("destroy_session") /\ call'.session_id[1] \in DOMAIN SESSION_TOKENS)
             => SESSION_TOKENS' # SESSION_TOKENS
       /\ call'.op = "create_session" => gw' = <<>>]_vars

\* send_reply ran to its success document, the sender lookup included,
\* while two sessions were stored
C20_Witness ==
    /\ Done
    /\ call.op = "send_reply"
    /\ result.kind = "json"
    /\ Cardinality(DOMAIN SESSION_TOKENS) = 2
    /\ Len(gw) = 2

====
